---- MODULE Spec2Model ----
(***************************************************************************)
(* Model of strawberryfields/plot.py: the Plot.ly bar-chart template       *)
(* barchartDefault, generate_fock_chart (which populates a chart           *)
(* dictionary in place) and plot_fock (which deep-copies the template,     *)
(* derives the photon-number distributions and calls the former).          *)
(*                                                                         *)
(* Python dicts are functions over string keys, Python lists are sequences *)
(* (list index i is sequence index i + 1), chart objects live in a heap of *)
(* references so that aliasing is visible, and floating-point values are   *)
(* exact rationals in lowest terms (rounding of IEEE doubles is not        *)
(* modelled).  The annotation dicts of a chart are objects too: the list   *)
(* chart['layout']['annotations'] holds their identities, and the entry    *)
(* "objects" of the chart (not a Python key) maps an identity to the dict, *)
(* so that two list entries naming one dict are distinguishable from two   *)
(* equal dicts.                                                            *)
(***************************************************************************)
EXTENDS Integers, Sequences, FiniteSets, TLC

VARIABLES heap, held, calls, plot

vars == <<heap, held, calls, plot>>

(***************************************************************************)
(* Bounds of the model.                                                    *)
(***************************************************************************)
\* longest list of modes enumerated with every order and repetition
MaxLen == 3
\* number of modes of the simulated state; mode numbers are drawn from -1..NumModes-1
NumModes == 2
\* largest panel count: the lists <<0, ..., n-1>> are drawn up to this length
MaxPlots == 51
\* calls of generate_fock_chart on one chart object
MaxCalls == 2
\* Fock-space truncation of the simulated state
Cutoff == 3

(***************************************************************************)
(* Exact rationals standing for Python floats.                             *)
(***************************************************************************)
RECURSIVE GCD(_, _)
GCD(a, b) == IF b = 0 THEN a ELSE GCD(b, a % b)

Abs(a) == IF a < 0 THEN 0 - a ELSE a

\* a / b for b > 0, in lowest terms
Rat(a, b) == LET g == GCD(Abs(a), b) IN [num |-> a \div g, den |-> b \div g]

RAdd(p, q) == Rat(p.num * q.den + q.num * p.den, p.den * q.den)

RSub(p, q) == Rat(p.num * q.den - q.num * p.den, p.den * q.den)

RDivInt(p, n) == Rat(p.num, p.den * n)

RLt(p, q) == p.num * q.den < q.num * p.den

RLe(p, q) == p.num * q.den <= q.num * p.den

(***************************************************************************)
(* Python containers.                                                      *)
(***************************************************************************)
EmptyDict == <<>>

\* d[k] = v
DictSet(d, k, v) == [q \in DOMAIN d \cup {k} |-> IF q = k THEN v ELSE d[q]]

\* list[i] does not raise IndexError (negative indices count from the end)
InRange(len, i) == 0 - len <= i /\ i < len

\* position of list[i] in the sequence
Pos(len, i) == IF i < 0 THEN i + len + 1 ELSE i + 1

\* list[i] = v
ListSet(list, i, v) == [list EXCEPT ![Pos(Len(list), i)] = v]

(***************************************************************************)
(* numpy arrays: a shape and the entries in row-major order.               *)
(***************************************************************************)
RECURSIVE Flatten(_)
Flatten(rows) == IF rows = <<>> THEN <<>> ELSE Head(rows) \o Flatten(Tail(rows))

\* np.array(rows) of equally long rows
np_array(rows) ==
    [shape |-> IF rows = <<>> THEN <<0>> ELSE <<Len(rows), Len(rows[1])>>,
     data |-> Flatten(rows)]

\* a[n] of a two-dimensional array, n in range
Row(a, n) ==
    LET c == a.shape[2]
        r == Pos(a.shape[1], n) - 1
    IN [shape |-> <<c>>, data |-> SubSeq(a.data, r * c + 1, r * c + c)]

\* a.tolist() of a one-dimensional array
tolist(a) == a.data

\* np.diagonal(p) of a square matrix
diagonal(p) ==
    LET c == p.shape[1]
    IN [shape |-> <<c>>, data |-> [i \in 1..c |-> p.data[(i - 1) * c + i]]]

(***************************************************************************)
(* Module-level constants of plot.py.                                      *)
(***************************************************************************)
textcolor == "#787878"

barchartDefault ==
    ("data" :> << ("y" :> <<>>) @@ ("x" :> <<>>) @@ ("type" :> "bar") @@ ("name" :> "q[0]") >>)
    @@ ("layout" :>
          (("width" :> 835) @@ ("height" :> 500)
           @@ ("margin" :> [l |-> 100, r |-> 100, b |-> 100, t |-> 100, pad |-> 4])
           @@ ("paper_bgcolor" :> "rgba(0,0,0,0)")
           @@ ("plot_bgcolor" :> "rgba(0,0,0,0)")
           @@ ("autosize" :> TRUE)
           @@ ("yaxis" :> (("gridcolor" :> "#bbb") @@ ("type" :> "linear")
                           @@ ("autorange" :> TRUE) @@ ("title" :> "Probability")
                           @@ ("fixedrange" :> TRUE)))
           @@ ("xaxis" :> (("gridcolor" :> textcolor) @@ ("type" :> "category")
                           @@ ("autorange" :> TRUE) @@ ("title" :> "q[0]")
                           @@ ("fixedrange" :> TRUE)))
           @@ ("showlegend" :> FALSE)
           @@ ("annotations" :> <<1>>)))
    @@ ("objects" :>
          << ("showarrow" :> FALSE) @@ ("yanchor" :> "bottom")
             @@ ("xref" :> "paper") @@ ("xanchor" :> "center")
             @@ ("yref" :> "paper") @@ ("text" :> "")
             @@ ("y" :> Rat(1, 1)) @@ ("x" :> Rat(0, 1))
             @@ ("font" :> [size |-> 16]) >>)
    @@ ("config" :>
          [modeBarButtonsToRemove |-> <<"zoom2d", "lasso2d", "select2d", "toggleSpikelines">>,
           displaylogo |-> FALSE])

(***************************************************************************)
(* Python builtins used by generate_fock_chart.                            *)
(***************************************************************************)
\* the identity order: what a missing sort would leave
unsorted(modes) == modes

\* sorted(modes): ascending, repetitions kept
sorted(modes) == SortSeq(modes, LAMBDA a, b: a < b)

\* "{:.3f}".format(v) for v >= 0 given in units of 1/10000; a value exactly
\* half-way between two thousandths is never drawn (its rounding depends on
\* the binary representation of the float)
Format3f(v) ==
    LET q == (v + 5) \div 10
        f == q % 1000
    IN ToString(q \div 1000) \o "."
       \o (IF f < 10 THEN "00" ELSE IF f < 100 THEN "0" ELSE "") \o ToString(f)

\* copy(d) of the dict with identity id: a new dict with the same entries is
\* added to the object table; its identity is the table's new length
copy(objects, id) == Append(objects, objects[id])

\* the chart as Python's == sees it: every annotation identity replaced by
\* the dict it names
Value(chart) ==
    [k \in DOMAIN chart \ {"objects"} |->
        IF k = "layout"
        THEN DictSet(chart["layout"], "annotations",
                     [i \in 1..Len(chart["layout"]["annotations"]) |->
                         chart["objects"][chart["layout"]["annotations"][i]]])
        ELSE chart[k]]

(***************************************************************************)
(* generate_fock_chart, lines 220-273.                                     *)
(***************************************************************************)
\* chart['data'][idx][k] = v
SetTrace(chart, idx, k, v) ==
    DictSet(chart, "data",
            ListSet(chart["data"], idx, DictSet(chart["data"][idx + 1], k, v)))

\* chart['layout'][k] = v
SetLayout(chart, k, v) == DictSet(chart, "layout", DictSet(chart["layout"], k, v))

\* chart['layout']['annotations'][idx][k] = v
SetAnnotation(chart, idx, k, v) ==
    LET id == chart["layout"]["annotations"][idx + 1]
    IN DictSet(chart, "objects",
               [chart["objects"] EXCEPT ![id] = DictSet(chart["objects"][id], k, v)])

\* the names of panel idx's x axis: the layout key and the trace reference
Xax(idx) ==
    IF idx = 0 THEN <<"xaxis", "x">>
    ELSE <<"xaxis" \o ToString(idx + 1), "x" \o ToString(idx + 1)>>

\* annotations.append(copy(annotations[i]))
AppendCopy(chart, i) ==
    LET anns == chart["layout"]["annotations"]
        objects == copy(chart["objects"], anns[i + 1])
    IN SetLayout(DictSet(chart, "objects", objects),
                 "annotations", Append(anns, Len(objects)))

\* a copy appended for every panel, the first included
AppendAnnotation_always(chart, idx) == AppendCopy(chart, IF idx = 0 THEN 0 ELSE idx - 1)

\* lines 243-247: every panel but the first appends a copy of annotation idx - 1
AppendAnnotation(chart, idx) == IF idx = 0 THEN chart ELSE AppendCopy(chart, idx - 1)

\* a left gap on every panel, the first included
dXa_always(idx) == Rat(1, 100)

\* line 253: 0.01 if idx != 0 else 0
dXa(idx) == IF idx # 0 THEN Rat(1, 100) ELSE Rat(0, 1)

\* line 254: 0.01 if idx != numplots - 1 else 0
dXb(idx, numplots) == IF idx # numplots - 1 THEN Rat(1, 100) ELSE Rat(0, 1)

\* line 258: [idx / numplots + dXa, (idx + 1) / numplots - dXb]
Domain(idx, numplots) ==
    << RAdd(Rat(idx, numplots), dXa(idx)),
       RSub(Rat(idx + 1, numplots), dXb(idx, numplots)) >>

\* lines 256-262: the axis definition of panel idx showing mode n
AxisDef(idx, n, numplots) ==
    ("type" :> "category")
    @@ ("domain" :> Domain(idx, numplots))
    @@ ("title" :> ("mode " \o ToString(n)))
    @@ ("fixedrange" :> TRUE)
    @@ ("gridcolor" :> "rgba(0,0,0,0)")

\* line 265: idx / numplots + dXa + 0.5 / numplots
AnnotationX(idx, numplots) ==
    RAdd(RAdd(Rat(idx, numplots), dXa(idx)), RDivInt(Rat(1, 2), numplots))

\* the distribution looked up by the panel's position (where photonDists has
\* such a row)
TraceY_by_position(photonDists, idx, n) ==
    tolist(Row(photonDists, IF InRange(photonDists.shape[1], idx) THEN idx ELSE n))

\* line 241: photonDists[n].tolist()
TraceY(photonDists, idx, n) == tolist(Row(photonDists, n))

\* line 264: "Mean: {:.3f}".format(mean[n])
MeanText(mean, n) == "Mean: " \o Format3f(mean[Pos(Len(mean), n)])

\* the outcome of a statement sequence: the chart as left, and "ok" or the
\* exception raised
Ok(chart) == [chart |-> chart, status |-> "ok"]

Raise(chart, exception) == [chart |-> chart, status |-> exception]

\* lines 238-240: type, marker and x of trace idx
TraceHead(chart, idx, xlabels) ==
    SetTrace(SetTrace(SetTrace(chart, idx, "type", "bar"),
                      idx, "marker", ("color" :> "#1f9094")),
             idx, "x", xlabels)

\* lines 241-262, photonDists[n] in range: y, the annotation appended, the
\* axis references of the trace and the axis definition
TraceAndAxis(chart, idx, n, numplots, photonDists) ==
    SetLayout(SetTrace(SetTrace(SetTrace(
                  AppendAnnotation(SetTrace(chart, idx, "y", TraceY(photonDists, idx, n)), idx),
                  idx, "xaxis", Xax(idx)[2]),
                  idx, "yaxis", "y"),
                  idx, "name", ""),
              Xax(idx)[1], AxisDef(idx, n, numplots))

\* lines 264-265, mean[n] in range: text and x of annotation idx
Caption(chart, idx, n, numplots, mean) ==
    SetAnnotation(SetAnnotation(chart, idx, "text", MeanText(mean, n)),
                  idx, "x", AnnotationX(idx, numplots))

\* lines 238-265: one pass of the loop; an IndexError leaves the chart as
\* mutated up to the failing statement
Iteration(chart, idx, n, numplots, photonDists, mean, xlabels) ==
    IF ~InRange(photonDists.shape[1], n)
    THEN Raise(TraceHead(chart, idx, xlabels), "IndexError")
    ELSE IF ~InRange(Len(mean), n)
    THEN Raise(TraceAndAxis(TraceHead(chart, idx, xlabels), idx, n, numplots, photonDists),
               "IndexError")
    ELSE Ok(Caption(TraceAndAxis(TraceHead(chart, idx, xlabels), idx, n, numplots,
                                 photonDists),
                    idx, n, numplots, mean))

\* line 237: for idx, n in enumerate(order), from position idx on; r is the
\* outcome of the pass before
RECURSIVE Loop(_, _, _, _, _, _)
Loop(r, idx, order, photonDists, mean, xlabels) ==
    IF r.status # "ok" \/ idx >= Len(order) THEN r
    ELSE Loop(Iteration(r.chart, idx, order[idx + 1], Len(order), photonDists, mean, xlabels),
              idx + 1, order, photonDists, mean, xlabels)

\* lines 267-273: the layout entries set after the loop, unless it raised
Finish(r) ==
    IF r.status # "ok" THEN r
    ELSE Ok(SetLayout(SetLayout(SetLayout(SetLayout(r.chart,
                "xaxis", DictSet(r.chart["layout"]["xaxis"], "type", "category")),
                "title", "Marginal Fock state probabilities"),
                "font", ("color" :> textcolor)),
                "font", ("color" :> textcolor)))

\* the whole function: the chart as it is left, and "ok" (the chart is
\* returned) or the exception raised
generate_fock_chart(chart, modes, photonDists, mean, xlabels) ==
    Finish(Loop(Ok(DictSet(chart, "data", [i \in 1..Len(modes) |-> EmptyDict])),
                0, sorted(modes), photonDists, mean, xlabels))

(***************************************************************************)
(* The chart heap.  Reference DefaultRef is the module-level dict          *)
(* barchartDefault; every other reference is a chart made by deepcopy.     *)
(***************************************************************************)
DefaultRef == 0

\* the smallest reference not in use
NewRef(h) == CHOOSE r \in 1..(Cardinality(DOMAIN h) + 1) :
                 r \notin DOMAIN h /\ \A q \in 1..(r - 1) : q \in DOMAIN h

\* no copy made: the reference itself handed on
deepcopy_alias(h, ref) == [ref |-> ref, heap |-> h]

\* deepcopy(obj): a new object with the same value, sharing nothing with obj
deepcopy(h, ref) == [ref |-> NewRef(h), heap |-> (NewRef(h) :> h[ref]) @@ h]

(***************************************************************************)
(* plot_fock, lines 184-218.                                               *)
(***************************************************************************)
\* the photon-number probabilities of mode m of the simulated state, in units
\* of 1/10000, truncated at cutoff c >= 2
StateProbs(m, c) ==
    [k \in 1..c |-> IF k = 1 THEN 10000 - (c - 1) * (200 + 20 * m) ELSE 200 + 20 * m]

\* state.reduced_dm(n, cutoff): the reduced density matrix of mode n, here a
\* diagonal matrix; asking for a mode the state does not have raises
reduced_dm(state, n, cutoff) ==
    IF n >= state.num_modes THEN [status |-> "StateError"]
    ELSE [status |-> "ok",
          value |-> [shape |-> <<cutoff, cutoff>>,
                     data |-> [q \in 1..(cutoff * cutoff) |->
                                 IF (q - 1) \div cutoff = (q - 1) % cutoff
                                 THEN StateProbs(n, cutoff)[((q - 1) % cutoff) + 1]
                                 ELSE 0]]]

\* np.sum(n * probs) for n = np.arange(cutoff)
RECURSIVE SumProd(_, _)
SumProd(probs, k) == IF k = 0 THEN 0 ELSE (k - 1) * probs[k] + SumProd(probs, k - 1)

\* ["|{}>".format(i) for i in range(0, cutoff, 1)]
XLabels(cutoff) == [i \in 1..cutoff |-> "|" \o ToString(i - 1) \o ">"]

\* np.array([np.real(np.diagonal(p)) for p in rho]), line 208
PhotonDistsOf(rho) == np_array([n \in 1..Len(rho) |-> diagonal(rho[n].value).data])

\* [np.sum(n*probs).real for probs in photonDists], lines 210-212
MeanOfDists(photonDists, cutoff) ==
    [n \in 1..photonDists.shape[1] |->
        SumProd(SubSeq(photonDists.data, (n - 1) * cutoff + 1, n * cutoff), cutoff)]

\* line 217 on the chart basic.ref of heap basic.heap
Populate(basic, modes, photonDists, cutoff) ==
    [ref |-> basic.ref, heap |-> basic.heap,
     r |-> generate_fock_chart(basic.heap[basic.ref], modes, photonDists,
                               MeanOfDists(photonDists, cutoff), XLabels(cutoff))]

\* line 218, and the return: the chart is shown unless line 217 raised; the
\* local chart is dropped, the heap h of the caller stays
Show(h, p) ==
    [heap |-> [q \in DOMAIN h |-> IF q = p.ref THEN p.r.chart ELSE p.heap[q]],
     status |-> IF p.r.status = "ok" THEN "shown" ELSE p.r.status,
     shown |-> IF p.r.status = "ok" THEN Value(p.r.chart) ELSE <<>>]

\* lines 206-218, rho computed
PlotRho(h, modes, rho, cutoff) ==
    IF \E n \in 1..Len(rho) : rho[n].status # "ok"
    THEN [heap |-> h, status |-> "StateError", shown |-> <<>>]
    ELSE Show(h, Populate(deepcopy(h, DefaultRef), modes, PhotonDistsOf(rho), cutoff))

\* lines 197-198
CutoffOf(state, cutoffArg) == IF cutoffArg = <<>> THEN state.cutoff_dim ELSE cutoffArg[1]

\* the whole function on heap h; cutoffArg is <<>> for None, plotly tells
\* whether Plot.ly can be imported (_get_plotly raises otherwise).  Yields the
\* heap left behind, the status ("shown", or the exception raised) and the
\* chart handed to pio.show
plot_fock(h, state, modes, cutoffArg, plotly) ==
    IF ~plotly THEN [heap |-> h, status |-> "TypeError", shown |-> <<>>]
    ELSE PlotRho(h, modes,
                 [n \in 1..Len(modes) |-> reduced_dm(state, n - 1, CutoffOf(state, cutoffArg))],
                 CutoffOf(state, cutoffArg))

(***************************************************************************)
(* Inputs.                                                                 *)
(***************************************************************************)
Modes == (0 - 1)..(NumModes - 1)

\* every list of at most MaxLen modes, in every order, repetitions included
SmallLists == UNION {[1..k -> Modes] : k \in 0..MaxLen}

\* the lists <<0, 1, ..., n-1>> of more than MaxLen modes
BigLists == {[i \in 1..n |-> i - 1] : n \in (MaxLen + 1)..MaxPlots}

\* shapes of the arguments: rows of photonDists, entries of mean, labels
ArgChoices ==
    { [rows |-> MaxPlots, nmeans |-> MaxPlots, nlabels |-> Cutoff],
      [rows |-> NumModes - 1, nmeans |-> MaxPlots, nlabels |-> Cutoff],
      [rows |-> MaxPlots, nmeans |-> NumModes - 1, nlabels |-> Cutoff],
      [rows |-> MaxPlots, nmeans |-> MaxPlots, nlabels |-> Cutoff - 1] }

\* the mean handed in for mode m, in units of 1/10000
MeanOf(m) == 1204 + 1110 * m + 2 * (m % 3)

PhotonDists(args) == np_array([m \in 1..args.rows |-> StateProbs(m - 1, Cutoff)])

Means(args) == [m \in 1..args.nmeans |-> MeanOf(m - 1)]

NoPlot == [status |-> "none"]

(***************************************************************************)
(* The state machine: a caller that makes a chart from the template and    *)
(* populates it, or calls plot_fock.                                       *)
(***************************************************************************)
Init ==
    /\ heap = (DefaultRef :> barchartDefault)
    /\ held = {}
    /\ calls = <<>>
    /\ plot = NoPlot

\* basic_chart = deepcopy(barchartDefault), as on line 216
MakeTemplate ==
    /\ held = {}
    /\ plot = NoPlot
    /\ heap' = deepcopy(heap, DefaultRef).heap
    /\ held' = {deepcopy(heap, DefaultRef).ref}
    /\ UNCHANGED <<calls, plot>>

\* what is remembered of a call: the arguments, the chart before, the
\* outcome, the object returned (if any) and the chart after
CallRecord(ref, modes, args, pre, r) ==
    [ref |-> ref, modes |-> modes, args |-> args, pre |-> pre,
     status |-> IF r.status = "ok" THEN "returned" ELSE r.status,
     ret |-> IF r.status = "ok" THEN {ref} ELSE {},
     post |-> r.chart]

\* generate_fock_chart(chart, modes, photonDists, mean, xlabels) on the chart
\* the caller holds; a chart already populated is populated again with the
\* same arguments
GenerateFockChart(ref, modes, args) ==
    /\ ref \in held
    /\ Len(calls) < MaxCalls
    /\ calls # <<>> => /\ calls[Len(calls)].modes = modes
                       /\ calls[Len(calls)].args = args
    /\ calls' = Append(calls, CallRecord(ref, modes, args, heap[ref],
                                         generate_fock_chart(heap[ref], modes,
                                                             PhotonDists(args), Means(args),
                                                             XLabels(args.nlabels))))
    /\ heap' = [heap EXCEPT ![ref] = calls'[Len(calls')].post]
    /\ UNCHANGED <<held, plot>>

\* what is remembered of a call of plot_fock
PlotRecord(state, modes, cutoffArg, plotly, r) ==
    [status |-> r.status, state |-> state, modes |-> modes,
     cutoff |-> CutoffOf(state, cutoffArg), plotly |-> plotly,
     shown |-> r.shown]

\* plot_fock(state, modes, cutoff) by a caller holding no chart
PlotFock(state, modes, cutoffArg, plotly) ==
    /\ held = {}
    /\ plot = NoPlot
    /\ plot' = PlotRecord(state, modes, cutoffArg, plotly,
                          plot_fock(heap, state, modes, cutoffArg, plotly))
    /\ heap' = plot_fock(heap, state, modes, cutoffArg, plotly).heap
    /\ UNCHANGED <<held, calls>>

\* the caller drops what it holds
Discard ==
    /\ held # {} \/ plot # NoPlot
    /\ heap' = [q \in (DOMAIN heap \ held) \cup {DefaultRef} |-> heap[q]]
    /\ held' = {}
    /\ calls' = <<>>
    /\ plot' = NoPlot

Next ==
    \/ MakeTemplate
    \/ \E ref \in held, modes \in SmallLists \cup BigLists, args \in ArgChoices :
           GenerateFockChart(ref, modes, args)
    \/ \E n \in 1..NumModes, modes \in SmallLists, cutoffArg \in {<<>>, <<Cutoff - 1>>},
          plotly \in BOOLEAN :
           PlotFock([num_modes |-> n, cutoff_dim |-> Cutoff], modes, cutoffArg, plotly)
    \/ Discard

Spec == Init /\ [][Next]_vars

(***************************************************************************)
(* Vocabulary of the properties.                                           *)
(***************************************************************************)
\* the latest call of generate_fock_chart on the held chart, and the one before
last == calls[Len(calls)]

prev == calls[Len(calls) - 1]

\* the latest call returned a chart
Returned == calls # <<>> /\ last.status = "returned"

\* ... and it was the first call on a chart deep-copied from barchartDefault,
\* which holds the single seed annotation
ReturnedFresh ==
    Returned /\ Len(calls) = 1 /\ Len(last.pre["layout"]["annotations"]) = 1

\* the layout key of the x axis of panel i: xaxis, xaxis2, xaxis3, ...
AxisKey(i) == IF i = 0 THEN "xaxis" ELSE "xaxis" \o ToString(i + 1)

AxisKeys == {AxisKey(i) : i \in 0..(2 * MaxPlots)}

\* the parts of a chart value
Traces(c) == c["data"]

Annotations(c) == c["layout"]["annotations"]

Axis(c, i) == c["layout"][AxisKey(i)]

Low(c, i) == Axis(c, i)["domain"][1]

High(c, i) == Axis(c, i)["domain"][2]

NumAxes(c) == Cardinality(DOMAIN c["layout"] \cap AxisKeys)

\* the entry of list s that i entries precede in ascending order
IthSmallest(s, i) ==
    CHOOSE v \in {s[j] : j \in 1..Len(s)} :
        /\ Cardinality({j \in 1..Len(s) : s[j] < v}) <= i
        /\ Cardinality({j \in 1..Len(s) : s[j] <= v}) > i

\* every reordering of a list
Reorderings(s) ==
    {[i \in 1..Len(s) |-> s[f[i]]] :
        f \in {g \in [1..Len(s) -> 1..Len(s)] : \A a, b \in 1..Len(s) : g[a] = g[b] => a = b}}

Reverse(s) == [i \in 1..Len(s) |-> s[Len(s) + 1 - i]]

\* the layout keys generate_fock_chart writes when it shows n panels
Written(n) == {"annotations", "title", "font", "xaxis"} \cup {AxisKey(i) : i \in 0..(n - 1)}

C2_RepeatDeepEqual ==
    (/\ Len(calls) >= 2
     /\ last.status = "returned" /\ prev.status = "returned"
     /\ last.ref = prev.ref /\ last.modes = prev.modes /\ last.args = prev.args)
    => Value(last.post) = Value(prev.post)

(***************************************************************************)
(* C3.  Axis domains are well formed.                                      *)
(***************************************************************************)
\* C3: for every panel count and every panel, the domain [low, high] written
\* satisfies 0 <= low < high <= 1.
C3_DomainWellFormed ==
    Returned =>
        \A i \in 0..(Len(last.modes) - 1) :
            /\ RLe(Rat(0, 1), Low(last.post, i))
            /\ RLt(Low(last.post, i), High(last.post, i))
            /\ RLe(High(last.post, i), Rat(1, 1))

(***************************************************************************)
(* C4.  Domain coverage.                                                   *)
(***************************************************************************)
\* C4: with n >= 1 panels the first domain starts at 0, the last ends at 1,
\* and between adjacent panels i and i + 1 the high of i lies 0.01 below the
\* boundary (i + 1) / n and the low of i + 1 lies 0.01 above it, so the two
\* are 0.02 apart and high < low.
C4_DomainCoverage ==
    (Returned /\ Len(last.modes) >= 1) =>
        /\ Low(last.post, 0) = Rat(0, 1)
        /\ High(last.post, Len(last.modes) - 1) = Rat(1, 1)
        /\ \A i \in 0..(Len(last.modes) - 2) :
              /\ RLt(High(last.post, i), Low(last.post, i + 1))
              /\ RSub(Low(last.post, i + 1), High(last.post, i)) = Rat(2, 100)
              /\ RSub(Rat(i + 1, Len(last.modes)), High(last.post, i)) = Rat(1, 100)
              /\ RSub(Low(last.post, i + 1), Rat(i + 1, Len(last.modes))) = Rat(1, 100)

\* C4 witness: three panels, the seam between panels 1 and 2 lying at
\* 2/3 - 0.01 and 2/3 + 0.01
C4_Witness ==
    /\ Returned
    /\ Len(last.modes) = 3
    /\ High(last.post, 1) = Rat(197, 300)
    /\ Low(last.post, 2) = Rat(203, 300)

(***************************************************************************)
(* C5.  Axis definitions, traces and annotations are as many as panels.    *)
(***************************************************************************)
\* C5 as stated: for any list of modes and a fresh template, the numbers of
\* x-axis definitions, traces and annotations all equal len(modes).
C5_CountsEqualPanels ==
    ReturnedFresh =>
        /\ NumAxes(last.post) = Len(last.modes)
        /\ Len(Traces(last.post)) = Len(last.modes)
        /\ Len(Annotations(last.post)) = Len(last.modes)

\* C5 amended: that holds for every non-empty list of modes; for the empty
\* list the chart has no trace, but keeps the template's one x-axis
\* definition and its one annotation.
C5_CountsEqualPanelsNonEmpty ==
    ReturnedFresh =>
        /\ Len(Traces(last.post)) = Len(last.modes)
        /\ NumAxes(last.post) = (IF last.modes = <<>> THEN 1 ELSE Len(last.modes))
        /\ Len(Annotations(last.post)) = (IF last.modes = <<>> THEN 1 ELSE Len(last.modes))
        /\ \A i \in 0..(Len(last.modes) - 1) : AxisKey(i) \in DOMAIN last.post["layout"]

\* C5 witness: a fresh template populated with three modes has three axis
\* definitions and three annotations
C5_Witness ==
    /\ ReturnedFresh
    /\ Len(last.modes) = 3
    /\ NumAxes(last.post) = 3
    /\ Len(Annotations(last.post)) = 3

(***************************************************************************)
(* C6.  Panel content is looked up by mode number.                         *)
(***************************************************************************)
\* C6: in the chart returned, with m the i-th smallest entry of modes (all
\* non-negative), trace i has y = distributions[m] and x = labels, the axis of
\* panel i is titled "mode m" and annotation i reads "Mean: " and means[m] to
\* three decimals (means[0] = 0.1204 gives 0.120, means[1] = 0.2316 gives 0.232).
C6_IndexByMode ==
    (Returned /\ \A j \in 1..Len(last.modes) : last.modes[j] >= 0) =>
        \A i \in 0..(Len(last.modes) - 1) :
            LET m == IthSmallest(last.modes, i)
                text == Value(last.post)["layout"]["annotations"][i + 1]["text"]
            IN /\ Traces(last.post)[i + 1]["y"] = StateProbs(m, Cutoff)
               /\ Traces(last.post)[i + 1]["x"] = XLabels(last.args.nlabels)
               /\ Axis(last.post, i)["title"] = "mode " \o ToString(m)
               /\ text = "Mean: " \o Format3f(MeanOf(m))
               /\ m = 0 => text = "Mean: 0.120"
               /\ m = 1 => text = "Mean: 0.232"

\* C6 witness: modes [1, 0, 1]: panels 1 and 2 both show mode 1
C6_Witness ==
    /\ Returned
    /\ last.modes = <<1, 0, 1>>
    /\ Traces(last.post)[2]["y"] = StateProbs(1, Cutoff)
    /\ Value(last.post)["layout"]["annotations"][3]["text"] = "Mean: 0.232"

(***************************************************************************)
(* C7.  The order of modes does not matter.                                *)
(***************************************************************************)
\* C7: on a fresh copy of the template, every reordering of modes gives the
\* same outcome as the order used (every reordering of a list of at most
\* MaxLen modes, the reversal of a longer one), and the panels are titled in
\* ascending mode order.
C7_OrderInvariance ==
    (calls # <<>> /\ Len(calls) = 1) =>
        /\ \A p \in (IF Len(last.modes) <= MaxLen THEN Reorderings(last.modes)
                     ELSE {Reverse(last.modes)}) :
              LET r == generate_fock_chart(last.pre, p, PhotonDists(last.args),
                                           Means(last.args), XLabels(last.args.nlabels))
              IN /\ r.chart = last.post
                 /\ (r.status = "ok") = (last.status = "returned")
        /\ last.status = "returned" =>
              \A i \in 0..(Len(last.modes) - 1) :
                  Axis(last.post, i)["title"]
                      = "mode " \o ToString(IthSmallest(last.modes, i))

\* C7 witness: modes [1, 0] on a fresh template: panel 0 is mode 0, panel 1
\* is mode 1
C7_Witness ==
    /\ ReturnedFresh
    /\ last.modes = <<1, 0>>
    /\ Axis(last.post, 0)["title"] = "mode 0"
    /\ Axis(last.post, 1)["title"] = "mode 1"

(***************************************************************************)
(* C8.  Annotation centring.                                               *)
(***************************************************************************)
\* C8: the x written into annotation i is the centre (low + high) / 2 of the
\* domain written for panel i.
C8_AnnotationCentred ==
    Returned =>
        \A i \in 0..(Len(last.modes) - 1) :
            RAdd(Value(last.post)["layout"]["annotations"][i + 1]["x"],
                 Value(last.post)["layout"]["annotations"][i + 1]["x"])
                = RAdd(Low(last.post, i), High(last.post, i))

(***************************************************************************)
(* C9.  Contract violations fail fast.                                     *)
(***************************************************************************)
\* C9: a call does not return a chart when some entry of modes exceeds the
\* bounds of distributions or of means, or when labels is not as long as the
\* distribution vectors.
C9_FailFast ==
    (/\ calls # <<>>
     /\ \/ \E j \in 1..Len(last.modes) :
              last.modes[j] >= last.args.rows \/ last.modes[j] >= last.args.nmeans
        \/ last.args.nlabels # Cutoff)
    => last.status # "returned"

(***************************************************************************)
(* C10.  plot_fock shows the modes asked for.                              *)
(***************************************************************************)
\* C10: for every list of valid modes of the state, plot_fock (Plot.ly
\* installed) shows a chart whose panel i, for m the i-th smallest of modes,
\* is titled "mode m" and holds the photon-number distribution of mode m and
\* its mean photon number; the call does not end in an IndexError.
C10_PlotFockModes ==
    (/\ plot.status # "none"
     /\ plot.plotly
     /\ \A j \in 1..Len(plot.modes) :
            plot.modes[j] >= 0 /\ plot.modes[j] < plot.state.num_modes)
    => /\ plot.status = "shown"
       /\ \A i \in 0..(Len(plot.modes) - 1) :
             LET m == IthSmallest(plot.modes, i)
             IN /\ plot.shown["data"][i + 1]["y"] = StateProbs(m, plot.cutoff)
                /\ plot.shown["layout"][AxisKey(i)]["title"] = "mode " \o ToString(m)
                /\ plot.shown["layout"]["annotations"][i + 1]["text"]
                       = "Mean: " \o Format3f(SumProd(StateProbs(m, plot.cutoff), plot.cutoff))

====
